---- MODULE Spec2Model ----
(***************************************************************************)
(* Model of the yEnc decoder of chrisfarms/yenc (yenc.go).                 *)
(*                                                                         *)
(* The input stream is a finite sequence of bytes (integers 0..255) that   *)
(* ends with end-of-file or an I/O error.  The decoder of Decode/run is    *)
(* modelled field by field; every loop of the source advances one input    *)
(* line per step.  Text is handled at the byte level: lines are cut at LF, *)
(* headers are split on spaces and on "=", numbers are parsed digit by     *)
(* digit, and CRC-32 (IEEE) is computed bit by bit on 32-bit words that    *)
(* are represented as the set of their one-bit positions.                  *)
(***************************************************************************)
EXTENDS Integers, Sequences, FiniteSets, TLC

(***************************************************************************)
(* Bytes and text                                                          *)
(***************************************************************************)

\* the delimiter of ReadString / ReadBytes, and the carriage return of TrimRight
LF == 10
CR == 13

\* the printable ASCII characters, code 32 first (the double quote, the
\* backslash and the back quote, which no header of the format uses, are place holders)
AsciiTable ==
    <<" ", "!", "dquote", "#", "$", "%", "&", "'", "(", ")", "*", "+", ",", "-", ".", "/",
      "0", "1", "2", "3", "4", "5", "6", "7", "8", "9", ":", ";", "<", "=", ">", "?",
      "@", "A", "B", "C", "D", "E", "F", "G", "H", "I", "J", "K", "L", "M", "N", "O",
      "P", "Q", "R", "S", "T", "U", "V", "W", "X", "Y", "Z", "[", "bslash", "]", "^", "_",
      "bquote", "a", "b", "c", "d", "e", "f", "g", "h", "i", "j", "k", "l", "m", "n", "o",
      "p", "q", "r", "s", "t", "u", "v", "w", "x", "y", "z", "{", "|", "}", "~">>

\* the byte of a one-character string
Ord(ch) == 31 + CHOOSE i \in 1..Len(AsciiTable) : AsciiTable[i] = ch

\* the bytes of a string literal of the source
Bytes(str) == [i \in 1..Len(str) |-> Ord(SubSeq(str, i, i))]

\* s[from:] and s[:to] of Go, on 1-based sequences
Drop(s, n) == SubSeq(s, n + 1, Len(s))
Take(s, n) == SubSeq(s, 1, n)

\* len(s) >= len(p) && s[:len(p)] == p
HasPrefix(s, p) == Len(s) >= Len(p) /\ Take(s, Len(p)) = p

\* strings.Index: the 0-based offset of the first occurrence of sep in s, -1 if none
Index(s, sep) ==
    LET hits == {i \in 0..(Len(s) - Len(sep)) : SubSeq(s, i + 1, i + Len(sep)) = sep}
    IN  IF hits = {} THEN -1 ELSE CHOOSE i \in hits : \A j \in hits : i <= j

\* strings.Split(s, sep) for a non-empty sep: all the fields, empty ones included
RECURSIVE Split(_, _)
Split(s, sep) ==
    LET i == Index(s, sep)
    IN  IF i < 0 THEN <<s>>
        ELSE <<Take(s, i)>> \o Split(Drop(s, i + Len(sep)), sep)

\* strings.SplitN(s, sep, 2): cut at the first occurrence of sep only
SplitN2(s, sep) ==
    LET i == Index(s, sep)
    IN  IF i < 0 THEN <<s>> ELSE <<Take(s, i), Drop(s, i + Len(sep))>>

\* the white space of strings.TrimSpace among the bytes below utf8.RuneSelf:
\* \t \n \v \f \r and space
AsciiSpace == {9, 10, 11, 12, 13, 32}

\* the other runes of unicode.IsSpace, each by its UTF-8 encoding: U+0085 and
\* U+00A0, U+1680, U+2000..U+200A, U+2028, U+2029, U+202F, U+205F and U+3000
SpaceRunes ==
    {<<194, 133>>, <<194, 160>>, <<225, 154, 128>>}
    \cup {<<226, 128, b>> : b \in 128..138}
    \cup {<<226, 128, 168>>, <<226, 128, 169>>, <<226, 128, 175>>}
    \cup {<<226, 129, 159>>, <<227, 128, 128>>}

\* the number of bytes of the white-space rune s begins with, 0 when its first
\* rune is no white space (utf8.DecodeRuneInString; a byte of 128 or more that
\* starts no valid encoding is the rune U+FFFD, which is no white space)
IsSpace(s) ==
    IF s = <<>> THEN 0
    ELSE IF s[1] < 128 THEN (IF s[1] \in AsciiSpace THEN 1 ELSE 0)
    ELSE IF \E r \in SpaceRunes : HasPrefix(s, r)
         THEN Len(CHOOSE r \in SpaceRunes : HasPrefix(s, r))
    ELSE 0

\* the number of bytes of the white-space rune s ends with, 0 when its last
\* rune is no white space (utf8.DecodeLastRuneInString)
IsSpaceLast(s) ==
    LET n == Len(s)
        ends(r) == Len(r) <= n /\ Drop(s, n - Len(r)) = r
    IN  IF s = <<>> THEN 0
        ELSE IF s[n] < 128 THEN (IF s[n] \in AsciiSpace THEN 1 ELSE 0)
        ELSE IF \E r \in SpaceRunes : ends(r)
             THEN Len(CHOOSE r \in SpaceRunes : ends(r))
        ELSE 0

\* strings.TrimLeftFunc(s, unicode.IsSpace)
RECURSIVE TrimLeftSpace(_)
TrimLeftSpace(s) ==
    IF IsSpace(s) > 0 THEN TrimLeftSpace(Drop(s, IsSpace(s))) ELSE s

\* strings.TrimRightFunc(s, unicode.IsSpace)
RECURSIVE TrimRightSpace(_)
TrimRightSpace(s) ==
    IF IsSpaceLast(s) > 0 THEN TrimRightSpace(Take(s, Len(s) - IsSpaceLast(s))) ELSE s

\* strings.TrimSpace: the white space of unicode.IsSpace is removed from both
\* ends, the left end first
TrimSpace(s) == TrimRightSpace(TrimLeftSpace(s))

\* bytes.TrimRight(line, "\r\n")
TrimRight(s) ==
    LET keep == {i \in 1..Len(s) : s[i] \notin {CR, LF}}
    IN  IF keep = {} THEN <<>>
        ELSE Take(s, CHOOSE i \in keep : \A j \in keep : j <= i)

(***************************************************************************)
(* Numbers                                                                 *)
(***************************************************************************)

IsDigit(b) == b >= Ord("0") /\ b <= Ord("9")

RECURSIVE StripZeros(_)
StripZeros(x) == IF x # <<>> /\ Head(x) = 0 THEN StripZeros(Tail(x)) ELSE x

\* An int64 is its sign and the decimal digits (values 0..9) of its magnitude,
\* most significant first and without leading zeros, so that equal numbers are
\* equal records; the magnitude of zero is the empty sequence.  An int is an
\* int64 (strconv.IntSize is 64 on the builds the decoder is run on).
MaxInt64 == <<9, 2, 2, 3, 3, 7, 2, 0, 3, 6, 8, 5, 4, 7, 7, 5, 8, 0, 7>>
MinInt64 == <<9, 2, 2, 3, 3, 7, 2, 0, 3, 6, 8, 5, 4, 7, 7, 5, 8, 0, 8>>

\* x > y for two magnitudes
MagGreater(x, y) ==
    \/ Len(x) > Len(y)
    \/ /\ Len(x) = Len(y)
       /\ \E i \in 1..Len(x) : /\ x[i] > y[i]
                                /\ \A j \in 1..(i - 1) : x[j] = y[j]

\* the decimal digits of n >= 0, the empty sequence for 0
RECURSIVE Digits(_)
Digits(n) == IF n = 0 THEN <<>> ELSE Append(Digits(n \div 10), n % 10)

\* int64(n) for a length or a count n
Int64(n) == [neg |-> n < 0, mag |-> Digits(IF n < 0 THEN 0 - n ELSE n)]

\* the value of a string of decimal digits, most significant first, as a
\* magnitude
DecValue(s) == StripZeros([i \in 1..Len(s) |-> s[i] - Ord("0")])

\* the largest uint64
MaxUint64 == <<1, 8, 4, 4, 6, 7, 4, 4, 0, 7, 3, 7, 0, 9, 5, 5, 1, 6, 1, 5>>

\* strconv.ParseInt(s, 10, 64) with its error dropped.  After an optional sign
\* ParseUint walks the bytes once: it stops with a range error at the digit
\* with which the value passes the largest uint64, and with a syntax error at a
\* byte that is no digit (and on the empty string), whichever comes first.
\* The result is 0 after a syntax error, and the nearest of
\* 9223372036854775807 and -9223372036854775808 for a value out of the range
\* of int64
ParseInt(s) ==
    LET signed == s # <<>> /\ s[1] \in {Ord("+"), Ord("-")}
        digits == IF signed THEN Drop(s, 1) ELSE s
        neg    == signed /\ s[1] = Ord("-")
        bad    == {i \in 1..Len(digits) : ~IsDigit(digits[i])}
        lead   == IF bad = {} THEN digits
                  ELSE Take(digits, (CHOOSE i \in bad : \A j \in bad : i <= j) - 1)
        un     == DecValue(lead)
    IN  IF digits = <<>> \/ (bad # {} /\ ~MagGreater(un, MaxUint64))
        THEN Int64(0)
        ELSE IF ~neg /\ MagGreater(un, MaxInt64) THEN [neg |-> FALSE, mag |-> MaxInt64]
        ELSE IF neg /\ MagGreater(un, MinInt64) THEN [neg |-> TRUE, mag |-> MinInt64]
        ELSE [neg |-> neg /\ un # <<>>, mag |-> un]

\* strconv.Atoi with its error dropped
Atoi(s) == ParseInt(s)

\* the value of a hexadecimal digit, -1 for any other byte
HexDigit(b) ==
    IF IsDigit(b) THEN b - Ord("0")
    ELSE IF b >= Ord("a") /\ b <= Ord("f") THEN b - Ord("a") + 10
    ELSE IF b >= Ord("A") /\ b <= Ord("F") THEN b - Ord("A") + 10
    ELSE -1

\* An unsigned word is the sequence of its hexadecimal digits (values 0..15),
\* most significant first; a uint32 has exactly eight of them.
Zero32 == <<0, 0, 0, 0, 0, 0, 0, 0>>

\* strconv.ParseUint(s, 16, 64): [ok, val]; ok is FALSE (err != nil) for the
\* empty string, for a byte that is no hexadecimal digit, and for a value that
\* does not fit 64 bits (more than sixteen digits after the leading zeros)
ParseUintHex(s) ==
    LET val == [i \in 1..Len(s) |-> HexDigit(s[i])]
    IN  IF \/ s = <<>>
           \/ \E i \in 1..Len(s) : HexDigit(s[i]) < 0
           \/ Len(StripZeros(val)) > 16
        THEN [ok |-> FALSE, val |-> <<>>]
        ELSE [ok |-> TRUE, val |-> StripZeros(val)]

\* uint32(crc64): the low 32 bits
Uint32(x) ==
    LET n == Len(x)
    IN  IF n >= 8 THEN SubSeq(x, n - 7, n) ELSE SubSeq(Zero32, 1, 8 - n) \o x

\* exclusive or of two hexadecimal digits
XorNib(a, b) ==
    ((a + b) % 2)
    + 2 * (((a \div 2) + (b \div 2)) % 2)
    + 4 * (((a \div 4) + (b \div 4)) % 2)
    + 8 * (((a \div 8) + (b \div 8)) % 2)

Xor32(x, y) ==
    <<XorNib(x[1], y[1]), XorNib(x[2], y[2]), XorNib(x[3], y[3]), XorNib(x[4], y[4]),
      XorNib(x[5], y[5]), XorNib(x[6], y[6]), XorNib(x[7], y[7]), XorNib(x[8], y[8])>>

\* x >> 1
ShiftRight1(x) ==
    <<x[1] \div 2,
      (x[1] % 2) * 8 + (x[2] \div 2), (x[2] % 2) * 8 + (x[3] \div 2),
      (x[3] % 2) * 8 + (x[4] \div 2), (x[4] % 2) * 8 + (x[5] \div 2),
      (x[5] % 2) * 8 + (x[6] \div 2), (x[6] % 2) * 8 + (x[7] \div 2),
      (x[7] % 2) * 8 + (x[8] \div 2)>>

\* ^x
Not32(x) ==
    <<15 - x[1], 15 - x[2], 15 - x[3], 15 - x[4],
      15 - x[5], 15 - x[6], 15 - x[7], 15 - x[8]>>

(***************************************************************************)
(* CRC-32, IEEE polynomial (hash/crc32)                                    *)
(***************************************************************************)

\* crc32.IEEE, the reversed polynomial 0xedb88320
IEEE == ParseUintHex(Bytes("edb88320")).val

\* one bit of the table-less update
CrcShift(crc) ==
    IF crc[8] % 2 = 1 THEN Xor32(ShiftRight1(crc), IEEE) ELSE ShiftRight1(crc)

\* crc32.IEEETable: entry n is n shifted eight times
IEEETable ==
    [n \in 0..255 |->
        CrcShift(CrcShift(CrcShift(CrcShift(CrcShift(CrcShift(CrcShift(CrcShift(
            <<0, 0, 0, 0, 0, 0, n \div 16, n % 16>>))))))))]

\* one byte: crc = tab[byte(crc) ^ b] ^ (crc >> 8)
CrcByte(crc, b) ==
    Xor32(IEEETable[16 * XorNib(crc[7], b \div 16) + XorNib(crc[8], b % 16)],
          <<0, 0, crc[1], crc[2], crc[3], crc[4], crc[5], crc[6]>>)

RECURSIVE CrcRaw(_, _)
CrcRaw(crc, p) ==
    IF p = <<>> THEN crc ELSE CrcByte(CrcRaw(crc, Take(p, Len(p) - 1)), p[Len(p)])

\* crc32.Update(crc, crc32.IEEETable, p): what crcHash.Write(p) does to the
\* digest, whose state is the running checksum (0 after crc32.NewIEEE())
CrcUpdate(crc, p) == Not32(CrcRaw(Not32(crc), p))

(***************************************************************************)
(* The decoder                                                             *)
(***************************************************************************)

\* the values of error: nil, io.EOF, an error of the underlying reader, and
\* the errors the package makes with fmt.Errorf
Nil == "nil"
\* a nil *Part
NilPart == [nil |-> TRUE]
ErrEOF == "io.EOF"
ErrRead == "read error"
ErrOrder == "yenc: =yend header out of order"
ErrSize == "Body size did not match expected size"
ErrPartCrc == "crc check failed for part"
ErrCrc == "crc check failed"
ErrNoParts == "no yenc parts found"

\* new(Part): every field zero
NewPart ==
    [Number |-> Int64(0), hsize |-> Int64(0), Size |-> Int64(0), Begin |-> Int64(0),
     End |-> Int64(0), Name |-> <<>>, cols |-> Int64(0), crc32 |-> Zero32, crcHash |-> Zero32, Body |-> <<>>]

\* &decoder{buf: bufio.NewReader(input)}, about to call run: pos is the number
\* of bytes of the input the reader has handed out, pc the place in Decode/run,
\* err the error run returns and ret the pair Decode returns
NewDecoder ==
    [pos |-> 0, multipart |-> FALSE, total |-> Int64(0), parts |-> <<>>, part |-> NilPart,
     crc32 |-> Zero32, crcHash |-> Zero32, awaitingSpecial |-> FALSE,
     pc |-> "run", err |-> Nil, ret |-> [part |-> NilPart, err |-> Nil]]

\* a reader that hands out the next line without consuming it
ReadLinePeeks(in, pos) ==
    LET ends == {i \in (pos + 1)..Len(in.data) : in.data[i] = LF}
        stop == CHOOSE i \in ends : \A j \in ends : i <= j
    IN  IF ends = {}
        THEN [line |-> SubSeq(in.data, pos + 1, Len(in.data)), err |-> in.err,
              pos |-> pos]
        ELSE [line |-> SubSeq(in.data, pos + 1, stop), err |-> Nil, pos |-> pos]

\* buf.ReadString('\n') / buf.ReadBytes('\n') on the input in = [data, err]:
\* the bytes up to and including the next LF; without one, the rest of the
\* data together with the error that ends the input
ReadLine(in, pos) ==
    LET ends == {i \in (pos + 1)..Len(in.data) : in.data[i] = LF}
        stop == CHOOSE i \in ends : \A j \in ends : i <= j
    IN  IF ends = {}
        THEN [line |-> SubSeq(in.data, pos + 1, Len(in.data)), err |-> in.err,
              pos |-> Len(in.data)]
        ELSE [line |-> SubSeq(in.data, pos + 1, stop), err |-> Nil, pos |-> stop]

\* kv := strings.Split(strings.TrimSpace(parts[i]), "=")
KeyValue(tok) == Split(TrimSpace(tok), Bytes("="))

\* Part.validate without the length check
PartValidateCrcOnly(p) ==
    IF p.crc32 # Zero32 /\ p.crcHash # p.crc32 THEN ErrPartCrc ELSE Nil

\* Part.validate comparing the body with the size of the =ybegin line
PartValidateHeaderSize(p) ==
    IF Int64(Len(p.Body)) # p.hsize THEN ErrSize
    ELSE IF p.crc32 # Zero32 /\ p.crcHash # p.crc32 THEN ErrPartCrc
    ELSE Nil

\* Part.validate
PartValidate(p) ==
    IF Int64(Len(p.Body)) # p.Size THEN ErrSize
    ELSE IF p.crc32 # Zero32 /\ p.crcHash # p.crc32 THEN ErrPartCrc
    ELSE Nil

\* decoder.validate
DecoderValidate(d) ==
    IF d.crc32 # Zero32 /\ d.crcHash # d.crc32 THEN ErrCrc ELSE Nil

\* the switch of readHeader, over the space-separated fields in order
RECURSIVE readHeaderFields(_, _)
readHeaderFields(d, toks) ==
    IF toks = <<>> THEN d
    ELSE LET kv == KeyValue(toks[Len(toks)])
             pre == readHeaderFields(d, Take(toks, Len(toks) - 1))
         IN  IF Len(kv) < 2 THEN pre
             ELSE IF kv[1] = Bytes("size")
                  THEN [pre EXCEPT !.part.hsize = ParseInt(kv[2])]
             ELSE IF kv[1] = Bytes("line")
                  THEN [pre EXCEPT !.part.cols = Atoi(kv[2])]
             ELSE IF kv[1] = Bytes("part")
                  THEN [pre EXCEPT !.part.Number = Atoi(kv[2]), !.multipart = TRUE]
             ELSE IF kv[1] = Bytes("total")
                  THEN [pre EXCEPT !.total = Atoi(kv[2])]
             ELSE pre

\* strings.LastIndex
LastIndex(s, sep) ==
    LET hits == {i \in 0..(Len(s) - Len(sep)) : SubSeq(s, i + 1, i + Len(sep)) = sep}
    IN  IF hits = {} THEN -1 ELSE CHOOSE i \in hits : \A j \in hits : j <= i

\* readHeader cutting the line at the last name= and keeping the name as it is
readHeaderParseLastName(d, s) ==
    LET rest == Drop(s, 7)
        i == LastIndex(rest, Bytes("name="))
    IN  IF i < 0 THEN readHeaderFields(d, Split(rest, Bytes(" ")))
        ELSE readHeaderFields([d EXCEPT !.part.Name = Drop(rest, i + 5)],
                              Split(Take(rest, i), Bytes(" ")))

\* readHeader after its loop found the line s: the name, then the other fields
readHeaderParse(d, s) ==
    LET parts == SplitN2(Drop(s, 7), Bytes("name="))
        named == IF Len(parts) > 1
                 THEN [d EXCEPT !.part.Name = TrimSpace(parts[2])]
                 ELSE d
    IN  readHeaderFields(named, Split(parts[1], Bytes(" ")))

\* readHeader looking for =ybegin after leading white space
readHeaderTrimmed(in, d) ==
    LET r == ReadLine(in, d.pos)
        t == TrimSpace(r.line)
    IN  IF r.err # Nil
        THEN [d EXCEPT !.pos = r.pos, !.err = ErrEOF, !.pc = "return"]
        ELSE IF HasPrefix(t, Bytes("=ybegin"))
        THEN LET h == readHeaderParse([d EXCEPT !.pos = r.pos], t)
             IN  [h EXCEPT !.pc = IF h.multipart THEN "readPartHeader" ELSE "readBody"]
        ELSE [d EXCEPT !.pos = r.pos]

\* readHeader giving up at the first line that is no =ybegin line
readHeaderFirstLineOnly(in, d) ==
    LET r == ReadLine(in, d.pos)
    IN  IF r.err # Nil \/ ~HasPrefix(r.line, Bytes("=ybegin"))
        THEN [d EXCEPT !.pos = r.pos, !.err = ErrEOF, !.pc = "return"]
        ELSE LET h == readHeaderParse([d EXCEPT !.pos = r.pos], r.line)
             IN  [h EXCEPT !.pc = IF h.multipart THEN "readPartHeader" ELSE "readBody"]

\* one turn of the loop of readHeader, and what follows when it breaks
readHeader(in, d) ==
    LET r == ReadLine(in, d.pos)
    IN  IF r.err # Nil
        THEN [d EXCEPT !.pos = r.pos, !.err = ErrEOF, !.pc = "return"]
        ELSE IF HasPrefix(r.line, Bytes("=ybegin"))
        THEN LET h == readHeaderParse([d EXCEPT !.pos = r.pos], r.line)
             IN  [h EXCEPT !.pc = IF h.multipart THEN "readPartHeader" ELSE "readBody"]
        ELSE [d EXCEPT !.pos = r.pos]

\* the switch of readPartHeader
RECURSIVE readPartHeaderFields(_, _)
readPartHeaderFields(d, toks) ==
    IF toks = <<>> THEN d
    ELSE LET kv == KeyValue(toks[Len(toks)])
             pre == readPartHeaderFields(d, Take(toks, Len(toks) - 1))
         IN  IF Len(kv) < 2 THEN pre
             ELSE IF kv[1] = Bytes("begin")
                  THEN [pre EXCEPT !.part.Begin = ParseInt(kv[2])]
             ELSE IF kv[1] = Bytes("end")
                  THEN [pre EXCEPT !.part.End = ParseInt(kv[2])]
             ELSE pre

\* one turn of the loop of readPartHeader, and what follows when it breaks
readPartHeader(in, d) ==
    LET r == ReadLine(in, d.pos)
    IN  IF r.err # Nil
        THEN [d EXCEPT !.pos = r.pos, !.err = r.err, !.pc = "return"]
        ELSE IF HasPrefix(r.line, Bytes("=ypart"))
        THEN [readPartHeaderFields([d EXCEPT !.pos = r.pos],
                                   Split(Drop(r.line, 6), Bytes(" ")))
                EXCEPT !.pc = "readBody"]
        ELSE [d EXCEPT !.pos = r.pos]

\* parseTrailer without the comparison of part= with the part's Number
RECURSIVE parseTrailerNoOrder(_, _)
parseTrailerNoOrder(d, toks) ==
    IF toks = <<>> THEN d
    ELSE LET kv == KeyValue(toks[Len(toks)])
             pre == parseTrailerNoOrder(d, Take(toks, Len(toks) - 1))
         IN  IF Len(kv) < 2 THEN pre
             ELSE IF kv[1] = Bytes("size")
                  THEN [pre EXCEPT !.part.Size = ParseInt(kv[2])]
             ELSE IF kv[1] = Bytes("pcrc32")
                  THEN IF ParseUintHex(kv[2]).ok
                       THEN [pre EXCEPT !.part.crc32 = Uint32(ParseUintHex(kv[2]).val)]
                       ELSE pre
             ELSE IF kv[1] = Bytes("crc32")
                  THEN IF ParseUintHex(kv[2]).ok
                       THEN [pre EXCEPT !.crc32 = Uint32(ParseUintHex(kv[2]).val)]
                       ELSE pre
             ELSE pre

\* parseTrailer: the fields in order; the first part= field that differs from
\* the part's Number ends it with the ordering error
RECURSIVE parseTrailer(_, _)
parseTrailer(d, toks) ==
    IF toks = <<>> THEN d
    ELSE LET kv == KeyValue(toks[Len(toks)])
             pre == parseTrailer(d, Take(toks, Len(toks) - 1))
         IN  IF pre.err # Nil \/ Len(kv) < 2 THEN pre
             ELSE IF kv[1] = Bytes("size")
                  THEN [pre EXCEPT !.part.Size = ParseInt(kv[2])]
             ELSE IF kv[1] = Bytes("pcrc32")
                  THEN IF ParseUintHex(kv[2]).ok
                       THEN [pre EXCEPT !.part.crc32 = Uint32(ParseUintHex(kv[2]).val)]
                       ELSE pre
             ELSE IF kv[1] = Bytes("crc32")
                  THEN IF ParseUintHex(kv[2]).ok
                       THEN [pre EXCEPT !.crc32 = Uint32(ParseUintHex(kv[2]).val)]
                       ELSE pre
             ELSE IF kv[1] = Bytes("part")
                  THEN IF Atoi(kv[2]) # pre.part.Number
                       THEN [pre EXCEPT !.err = ErrOrder]
                       ELSE pre
             ELSE pre

\* decode with the escaped byte shifted by 64 only (the 42 forgotten)
RECURSIVE decodeEscape64(_, _)
decodeEscape64(line, awaitingSpecial) ==
    IF line = <<>> THEN [out |-> <<>>, awaitingSpecial |-> awaitingSpecial]
    ELSE LET pre == decodeEscape64(Take(line, Len(line) - 1), awaitingSpecial)
             b == line[Len(line)]
         IN  IF pre.awaitingSpecial
             THEN [out |-> Append(pre.out, (b - 64) % 256), awaitingSpecial |-> FALSE]
             ELSE IF b = Ord("=")
             THEN [out |-> pre.out, awaitingSpecial |-> TRUE]
             ELSE [out |-> Append(pre.out, (b - 42) % 256),
                   awaitingSpecial |-> FALSE]

\* decode taking every '=' as an escape marker, also after a marker
RECURSIVE decodeEveryMarker(_, _)
decodeEveryMarker(line, awaitingSpecial) ==
    IF line = <<>> THEN [out |-> <<>>, awaitingSpecial |-> awaitingSpecial]
    ELSE LET pre == decodeEveryMarker(Take(line, Len(line) - 1), awaitingSpecial)
             b == line[Len(line)]
         IN  IF b = Ord("=")
             THEN [out |-> pre.out, awaitingSpecial |-> TRUE]
             ELSE IF pre.awaitingSpecial
             THEN [out |-> Append(pre.out, (((b - 42) % 256) - 64) % 256),
                   awaitingSpecial |-> FALSE]
             ELSE [out |-> Append(pre.out, (b - 42) % 256),
                   awaitingSpecial |-> FALSE]

\* decoder.decode: [out, awaitingSpecial] for a line and the flag it starts with
RECURSIVE decode(_, _)
decode(line, awaitingSpecial) ==
    IF line = <<>> THEN [out |-> <<>>, awaitingSpecial |-> awaitingSpecial]
    ELSE LET pre == decode(Take(line, Len(line) - 1), awaitingSpecial)
             b == line[Len(line)]
         IN  IF pre.awaitingSpecial
             THEN [out |-> Append(pre.out, (((b - 42) % 256) - 64) % 256),
                   awaitingSpecial |-> FALSE]
             ELSE IF b = Ord("=")
             THEN [out |-> pre.out, awaitingSpecial |-> TRUE]
             ELSE [out |-> Append(pre.out, (b - 42) % 256),
                   awaitingSpecial |-> FALSE]

\* readBody keeping the escape flag of the previous part
readBodyStartKeepsFlag(d) ==
    [d EXCEPT !.part.Body = <<>>, !.part.crcHash = Zero32, !.pc = "readBodyLine"]

\* readBody before its loop
readBodyStart(d) ==
    [d EXCEPT !.part.Body = <<>>, !.awaitingSpecial = FALSE,
              !.part.crcHash = Zero32, !.pc = "readBodyLine"]

\* readBody decoding every line with the escape flag cleared
readBodyLineResets(in, d) ==
    LET r == ReadLine(in, d.pos)
        line == TrimRight(r.line)
        dec == decode(line, FALSE)
    IN  IF r.err # Nil
        THEN [d EXCEPT !.pos = r.pos, !.err = r.err, !.pc = "return"]
        ELSE IF HasPrefix(line, Bytes("=yend"))
        THEN LET t == parseTrailer([d EXCEPT !.pos = r.pos], Split(line, Bytes(" ")))
             IN  [t EXCEPT !.pc = IF t.err # Nil THEN "return" ELSE "append"]
        ELSE [d EXCEPT !.pos = r.pos,
                       !.awaitingSpecial = dec.awaitingSpecial,
                       !.part.crcHash = CrcUpdate(@, dec.out),
                       !.crcHash = CrcUpdate(@, dec.out),
                       !.part.Body = @ \o dec.out]

\* one turn of the loop of readBody
readBodyLine(in, d) ==
    LET r == ReadLine(in, d.pos)
        line == TrimRight(r.line)
        dec == decode(line, d.awaitingSpecial)
    IN  IF r.err # Nil
        THEN [d EXCEPT !.pos = r.pos, !.err = r.err, !.pc = "return"]
        ELSE IF HasPrefix(line, Bytes("=yend"))
        THEN LET t == parseTrailer([d EXCEPT !.pos = r.pos], Split(line, Bytes(" ")))
             IN  [t EXCEPT !.pc = IF t.err # Nil THEN "return" ELSE "append"]
        ELSE [d EXCEPT !.pos = r.pos,
                       !.awaitingSpecial = dec.awaitingSpecial,
                       !.part.crcHash = CrcUpdate(@, dec.out),
                       !.crcHash = CrcUpdate(@, dec.out),
                       !.part.Body = @ \o dec.out]

\* run validating the first part of the list only
appendPartFirstOnly(d) ==
    LET v == IF Len(d.parts) = 0 THEN PartValidate(d.part) ELSE Nil
    IN  [d EXCEPT !.parts = Append(@, d.part),
                  !.err = v,
                  !.pc = IF v # Nil THEN "return" ELSE "newPart"]

\* run, after readBody: the part joins the list, then is validated
appendPart(d) ==
    LET v == PartValidate(d.part)
    IN  [d EXCEPT !.parts = Append(@, d.part),
                  !.err = v,
                  !.pc = IF v # Nil THEN "return" ELSE "newPart"]

\* Decode returning the first part together with the error
decodeReturnKeepsPart(d) ==
    LET last == d.parts[Len(d.parts)]
        first == IF Len(d.parts) = 0 THEN NilPart ELSE d.parts[1]
        res == IF d.err # Nil /\ d.err # ErrEOF THEN [part |-> first, err |-> d.err]
               ELSE IF Len(d.parts) = 0 THEN [part |-> NilPart, err |-> ErrNoParts]
               ELSE IF /\ (~d.multipart \/ Int64(Len(d.parts)) = last.Number)
                       /\ DecoderValidate(d) # Nil
                    THEN [part |-> first, err |-> DecoderValidate(d)]
               ELSE [part |-> d.parts[1], err |-> Nil]
    IN  [d EXCEPT !.ret = res, !.pc = "done"]

\* Decode returning the last part of the list
decodeReturnLast(d) ==
    LET last == d.parts[Len(d.parts)]
        res == IF d.err # Nil /\ d.err # ErrEOF THEN [part |-> NilPart, err |-> d.err]
               ELSE IF Len(d.parts) = 0 THEN [part |-> NilPart, err |-> ErrNoParts]
               ELSE IF /\ (~d.multipart \/ Int64(Len(d.parts)) = last.Number)
                       /\ DecoderValidate(d) # Nil
                    THEN [part |-> NilPart, err |-> DecoderValidate(d)]
               ELSE [part |-> last, err |-> Nil]
    IN  [d EXCEPT !.ret = res, !.pc = "done"]

\* Decode validating the whole-session CRC whatever the parts' numbers
decodeReturnAlwaysValidates(d) ==
    LET res == IF d.err # Nil /\ d.err # ErrEOF THEN [part |-> NilPart, err |-> d.err]
               ELSE IF Len(d.parts) = 0 THEN [part |-> NilPart, err |-> ErrNoParts]
               ELSE IF DecoderValidate(d) # Nil
                    THEN [part |-> NilPart, err |-> DecoderValidate(d)]
               ELSE [part |-> d.parts[1], err |-> Nil]
    IN  [d EXCEPT !.ret = res, !.pc = "done"]

\* Decode, after run returned d.err
decodeReturn(d) ==
    LET last == d.parts[Len(d.parts)]
        res == IF d.err # Nil /\ d.err # ErrEOF THEN [part |-> NilPart, err |-> d.err]
               ELSE IF Len(d.parts) = 0 THEN [part |-> NilPart, err |-> ErrNoParts]
               ELSE IF /\ (~d.multipart \/ Int64(Len(d.parts)) = last.Number)
                       /\ DecoderValidate(d) # Nil
                    THEN [part |-> NilPart, err |-> DecoderValidate(d)]
               ELSE [part |-> d.parts[1], err |-> Nil]
    IN  [d EXCEPT !.ret = res, !.pc = "done"]

\* one step of Decode on the input in
Step(in, d) ==
    CASE d.pc = "run" -> [d EXCEPT !.crcHash = Zero32, !.pc = "newPart"]
      [] d.pc = "newPart" -> [d EXCEPT !.part = NewPart, !.pc = "readHeader"]
      [] d.pc = "readHeader" -> readHeader(in, d)
      [] d.pc = "readPartHeader" -> readPartHeader(in, d)
      [] d.pc = "readBody" -> readBodyStart(d)
      [] d.pc = "readBodyLine" -> readBodyLine(in, d)
      [] d.pc = "append" -> appendPart(d)
      [] d.pc = "return" -> decodeReturn(d)
      [] OTHER -> d

\* run up to the end of its first readBody: the decoder when the first part is
\* about to join the list, or when an error or the end of the input came first
RECURSIVE readFirstBody(_, _)
readFirstBody(in, d) ==
    IF d.pc \in {"append", "return", "done"} THEN d ELSE readFirstBody(in, Step(in, d))

\* Decode(input): the decoder when Decode has returned
RECURSIVE Decode(_, _)
Decode(in, d) == IF d.pc = "done" THEN d ELSE Decode(in, Step(in, d))

(***************************************************************************)
(* Input streams                                                           *)
(*                                                                         *)
(* A stream is described by the lines before the first part, its parts and *)
(* the lines after the last one, and rendered to the bytes the reader      *)
(* hands to the decoder.  A part is its =ybegin line, an optional =ypart   *)
(* line, raw body lines and an optional =yend line.                        *)
(***************************************************************************)

\* the longest byte sequence that is encoded, the most parts of a stream and
\* the most lines of a stream without parts
MaxLen == 2
MaxParts == 2
MaxLines == 2

\* the decimal text of a natural number
RECURSIVE Dec(_)
Dec(n) == IF n < 10 THEN <<Ord("0") + n>> ELSE Dec(n \div 10) \o <<Ord("0") + (n % 10)>>

\* the text of a uint32, eight lower-case hexadecimal digits
Hex8(x) == [i \in 1..8 |-> IF x[i] < 10 THEN Ord("0") + x[i] ELSE Ord("a") + (x[i] - 10)]

RECURSIVE Flatten(_)
Flatten(ss) == IF ss = <<>> THEN <<>> ELSE Head(ss) \o Flatten(Tail(ss))

\* all sequences over S of length at most n
SeqsUpTo(S, n) == UNION {[1..k -> S] : k \in 0..n}

\* the yEnc transform of one byte: add 42; NUL, LF, CR and '=' are written as
\* '=' followed by the result plus 64
EncodeByte(b) ==
    LET e == (b + 42) % 256
    IN  IF e \in {0, LF, CR, Ord("=")} THEN <<Ord("="), (e + 64) % 256>> ELSE <<e>>

Encode(bs) == Flatten([i \in 1..Len(bs) |-> EncodeByte(bs[i])])

\* the lines of enc when it is cut after each position of cuts
RECURSIVE CutLines(_, _)
CutLines(enc, cuts) ==
    IF cuts = {} THEN <<enc>>
    ELSE LET c == CHOOSE i \in cuts : \A j \in cuts : j <= i
         IN  Append(CutLines(Take(enc, c), cuts \ {c}), Drop(enc, c))

\* the fields of the =ypart line of the streams that do not vary them
UsualRange == Bytes(" begin=1 end=9")

\* a part with the header and trailer of a plain single-part stream
PlainPart(name, lines, size) ==
    [hextra |-> <<>>, hpart |-> -1, htotal |-> -1, hline |-> 128, hsize |-> size,
     yrange |-> UsualRange,
     name |-> name,
     ypart |-> FALSE, lines |-> lines, ended |-> TRUE, trailer |-> Bytes(" size=") \o Dec(size)]

\* a part of a multipart stream: part=n in the header and in the trailer
NumberedPart(n, lines, size) ==
    [hextra |-> <<>>, hpart |-> n, htotal |-> -1, hline |-> 128, hsize |-> size,
     yrange |-> UsualRange,
     name |-> Bytes("f"),
     ypart |-> TRUE, lines |-> lines, ended |-> TRUE,
     trailer |-> Bytes(" size=") \o Dec(size) \o Bytes(" part=") \o Dec(n)]

RenderPart(p, eol) ==
    Bytes("=ybegin") \o p.hextra
    \o (IF p.hpart >= 0 THEN Bytes(" part=") \o Dec(p.hpart) ELSE <<>>)
    \o (IF p.htotal >= 0 THEN Bytes(" total=") \o Dec(p.htotal) ELSE <<>>)
    \o Bytes(" line=") \o Dec(p.hline) \o Bytes(" size=") \o Dec(p.hsize)
    \o Bytes(" name=") \o p.name \o eol
    \o (IF p.ypart THEN Bytes("=ypart") \o p.yrange \o eol ELSE <<>>)
    \o Flatten([i \in 1..Len(p.lines) |-> p.lines[i] \o eol])
    \o (IF p.ended THEN Bytes("=yend") \o p.trailer \o eol ELSE <<>>)

\* the bytes of a stream; without term the last line has no line end
Render(st) ==
    LET all == Flatten([i \in 1..Len(st.pre) |-> st.pre[i] \o st.eol])
               \o Flatten([i \in 1..Len(st.parts) |-> RenderPart(st.parts[i], st.eol)])
               \o Flatten([i \in 1..Len(st.post) |-> st.post[i] \o st.eol])
    IN  IF st.term \/ all = <<>> THEN all ELSE Take(all, Len(all) - Len(st.eol))

Stream(pre, parts, post, eol, term, err) ==
    [pre |-> pre, parts |-> parts, post |-> post, eol |-> eol, term |-> term, err |-> err]

LineEnds == {<<LF>>, <<CR, LF>>}

\* the bytes whose encoding is escaped, and one whose encoding is the letter y
CriticalBytes == {214, 224, 227, 19, 79}

\* Round trip: a byte sequence is encoded, cut into lines at any positions and
\* framed as a single-part stream.  Every byte value occurs alone; the critical
\* ones occur in runs.
RoundTripInputs ==
    UNION {
        {[kind |-> "roundtrip", orig |-> <<o>>,
          stream |-> Stream(<<>>,
                            <<PlainPart(Bytes("f"), CutLines(Encode(o), cuts), Len(o))>>,
                            <<>>, eol, TRUE, ErrEOF)] :
            cuts \in SUBSET (1..(Len(Encode(o)) - 1)), eol \in LineEnds} :
        o \in SeqsUpTo(CriticalBytes, MaxLen) \cup {<<b>> : b \in 0..255}}

\* the encoded one-line body of part i of a generated stream: i bytes 10i+1..
OrigOf(i) == [j \in 1..i |-> 10 * i + j]

\* CRC enforcement: a single part whose trailer carries crc32=text
CrcBodies == {<<>>, <<1>>, <<214, 2>>}

CrcTexts(o) ==
    LET sum == CrcUpdate(Zero32, o)
    IN  {Hex8(sum), Hex8(Zero32), Hex8(Xor32(sum, <<0, 0, 0, 0, 0, 0, 0, 1>>)),
         Hex8(Not32(sum)), Bytes("1") \o Hex8(sum), Bytes("0"), Bytes("zz"), <<>>}

CrcInputs ==
    UNION {
        {[kind |-> "crc", orig |-> <<o>>, text |-> t,
          stream |-> Stream(<<>>,
                            <<[PlainPart(Bytes("f"), <<Encode(o)>>, Len(o)) EXCEPT
                                 !.trailer = @ \o Bytes(" crc32=") \o t]>>,
                            <<>>, eol, TRUE, ErrEOF)] :
            t \in CrcTexts(o), eol \in LineEnds} :
        o \in CrcBodies}

\* Truncated streams: n complete parts, then a part without its =yend line;
\* the input ends with end-of-file or with an error of the reader, and its
\* last line may lack the line end
TruncInputs ==
    UNION {
        {[kind |-> "trunc", orig |-> [i \in 1..n |-> OrigOf(i)],
          stream |-> Stream(<<>>,
                [i \in 1..(n + 1) |->
                    LET p == IF multi THEN NumberedPart(i, <<Encode(OrigOf(i))>>, i)
                             ELSE PlainPart(Bytes("f"), <<Encode(OrigOf(i))>>, i)
                    IN  IF i <= n THEN p
                        ELSE [p EXCEPT !.ended = FALSE, !.ypart = yp, !.lines = ls]],
                <<>>, <<LF>>, term, e)] :
            yp \in (IF multi THEN BOOLEAN ELSE {FALSE}),
            ls \in {<<>>, <<Encode(OrigOf(n + 1))>>},
            term \in BOOLEAN, e \in {ErrEOF, ErrRead}} :
        n \in 0..(MaxParts - 1), multi \in BOOLEAN}

\* Part numbers: every part has part=hs[i] in its header (-1: none) and
\* part=ts[i] in its trailer (-1: none); a =ypart line follows the header from
\* the first numbered header on
PartNumbers == {-1, 1, 2}

OrderInputs ==
    UNION {
        {[kind |-> "order", orig |-> [i \in 1..n |-> OrigOf(i)], hs |-> hs, ts |-> ts,
          stream |-> Stream(<<>>,
                [i \in 1..n |->
                    [hextra |-> <<>>, hpart |-> hs[i], htotal |-> -1, hline |-> 128,
                     yrange |-> UsualRange,
                     hsize |-> i,
                     name |-> Bytes("f"),
                     ypart |-> \E j \in 1..i : hs[j] >= 0,
                     lines |-> <<Encode(OrigOf(i))>>, ended |-> TRUE,
                     trailer |-> Bytes(" size=") \o Dec(i)
                                 \o (IF ts[i] >= 0 THEN Bytes(" part=") \o Dec(ts[i])
                                     ELSE <<>>)]],
                <<>>, <<LF>>, TRUE, ErrEOF)] :
            hs \in [1..n -> PartNumbers], ts \in [1..n -> PartNumbers]} :
        n \in 1..MaxParts}

\* Garbage: lines none of which begins with =ybegin
GarbageLines ==
    {<<>>, Bytes("x"), Bytes("=ybegi"), Bytes(" =ybegin size=0 name=f"),
     Bytes("=yend size=0"), Bytes("=ypart begin=1 end=1"), Bytes("=YBEGIN")}

GarbageInputs ==
    {[kind |-> "garbage", orig |-> <<>>,
      stream |-> Stream(ls, <<>>, <<>>, eol, term, e)] :
        ls \in SeqsUpTo(GarbageLines, MaxLines), eol \in LineEnds,
        term \in BOOLEAN, e \in {ErrEOF, ErrRead}}

\* Names: a single part with name=text, with or without an earlier name=
NameTexts ==
    {Bytes("f"), Bytes("a b"), Bytes(" a"), Bytes("a "), Bytes("a  b.c d"), <<>>,
     Bytes("name=b"), <<9>> \o Bytes("t"), <<194, 160>> \o Bytes("a") \o <<227, 128, 128>>}

NameInputs ==
    {[kind |-> "name", orig |-> <<OrigOf(1)>>,
      stream |-> Stream(<<>>,
                        <<[PlainPart(t, <<Encode(OrigOf(1))>>, 1) EXCEPT !.hextra = x]>>,
                        <<>>, eol, TRUE, ErrEOF)] :
        t \in NameTexts, x \in {<<>>, Bytes(" nickname=z")}, eol \in LineEnds}

\* Wide numbers: decimal texts of more than nine digits, each with the int64
\* strconv reads from it; a text beyond the range of int64 reads as the
\* nearest int64, so 9223372036854775807 and 9223372036854775808 read as the
\* same number, and so does a text whose digits pass the range of uint64
\* before a byte that is no digit
WideNumbers ==
    {[text |-> Bytes("1000000000"),
      value |-> [neg |-> FALSE, mag |-> <<1, 0, 0, 0, 0, 0, 0, 0, 0, 0>>]],
     [text |-> Bytes("1234567890"),
      value |-> [neg |-> FALSE, mag |-> <<1, 2, 3, 4, 5, 6, 7, 8, 9, 0>>]],
     [text |-> Bytes("4294967297"),
      value |-> [neg |-> FALSE, mag |-> <<4, 2, 9, 4, 9, 6, 7, 2, 9, 7>>]],
     [text |-> Bytes("9223372036854775807"),
      value |-> [neg |-> FALSE, mag |-> MaxInt64]],
     [text |-> Bytes("9223372036854775808"),
      value |-> [neg |-> FALSE, mag |-> MaxInt64]],
     [text |-> Bytes("18446744073709551616x"),
      value |-> [neg |-> FALSE, mag |-> MaxInt64]],
     [text |-> Bytes("-9223372036854775809"),
      value |-> [neg |-> TRUE, mag |-> MinInt64]]}

\* a single part of one byte in the multipart form whose header carries
\* part=h and total=h, whose =ypart line carries begin=h and end=t and whose
\* trailer carries part=t
WideInputs ==
    {[kind |-> "wide", orig |-> <<OrigOf(1)>>, h |-> h, t |-> t,
      stream |-> Stream(<<>>,
                        <<[PlainPart(Bytes("f"), <<Encode(OrigOf(1))>>, 1) EXCEPT
                             !.hextra = Bytes(" part=") \o h.text
                                        \o Bytes(" total=") \o h.text,
                             !.ypart = TRUE,
                             !.yrange = Bytes(" begin=") \o h.text
                                        \o Bytes(" end=") \o t.text,
                             !.trailer = Bytes(" size=1 part=") \o t.text]>>,
                        <<>>, <<LF>>, TRUE, ErrEOF)] :
        h \in WideNumbers, t \in WideNumbers}

\* Sizes: a single part of n bytes whose trailer declares size=text (or
\* nothing), and whose header declares a size of its own
SizeTexts ==
    {[text |-> Dec(k), value |-> Int64(k)] : k \in 0..(MaxLen + 1)}
    \cup {[text |-> Bytes("x"), value |-> Int64(0)],
          [text |-> Bytes("1") \o <<194, 160>>, value |-> Int64(1)]}
    \cup WideNumbers

SizeInputs ==
    {[kind |-> "size", orig |-> <<o>>, declared |-> IF sized THEN t.value ELSE Int64(0),
      stream |-> Stream(<<>>,
                        <<[PlainPart(Bytes("f"), <<Encode(o)>>, h) EXCEPT
                             !.trailer = IF sized THEN Bytes(" size=") \o t.text
                                         ELSE <<>>]>>,
                        <<>>, <<LF>>, TRUE, ErrEOF)] :
        o \in SeqsUpTo({1}, MaxLen), t \in SizeTexts, sized \in BOOLEAN, h \in {0, 9}}

\* Escapes at a line boundary: the body lines a= and cb, and the one line a=cb
EscapeBytes == {Ord("="), Ord("y"), 43, CR}

EscapeInputs ==
    {[kind |-> "escape", orig |-> <<>>, a |-> a, c |-> c, b |-> b,
      stream |-> Stream(<<>>,
                        <<PlainPart(Bytes("f"), <<a \o <<Ord("=")>>, <<c>> \o b>>, 0)>>,
                        <<>>, <<LF>>, TRUE, ErrEOF),
      alt |-> Stream(<<>>,
                     <<PlainPart(Bytes("f"), <<a \o <<Ord("=")>> \o <<c>> \o b>>, 0)>>,
                     <<>>, <<LF>>, TRUE, ErrEOF)] :
        a \in SeqsUpTo(EscapeBytes, 1), c \in EscapeBytes,
        b \in SeqsUpTo(EscapeBytes, 1) \cup {Bytes("yend"), Bytes("end")}}

\* Whole-session CRC: n parts with part=hs[i] in header and trailer (-1: none,
\* in both), the trailer of part number at carrying crc32=H, H the CRC-32 of
\* all the decoded bytes of the stream or that value with its last bit flipped
SessionInputs ==
    UNION {
        {LET sum == CrcUpdate(Zero32, Flatten([i \in 1..n |-> OrigOf(i)]))
             h == IF good THEN sum ELSE Xor32(sum, <<0, 0, 0, 0, 0, 0, 0, 1>>)
         IN  [kind |-> "session", orig |-> [i \in 1..n |-> OrigOf(i)], hs |-> hs,
              at |-> at, declared |-> h,
              stream |-> Stream(<<>>,
                [i \in 1..n |->
                    [hextra |-> <<>>, hpart |-> hs[i], htotal |-> -1, hline |-> 128,
                     yrange |-> UsualRange,
                     hsize |-> i,
                     name |-> Bytes("f"),
                     ypart |-> \E j \in 1..i : hs[j] >= 0,
                     lines |-> <<Encode(OrigOf(i))>>, ended |-> TRUE,
                     trailer |-> Bytes(" size=") \o Dec(i)
                                 \o (IF hs[i] >= 0 THEN Bytes(" part=") \o Dec(hs[i])
                                     ELSE <<>>)
                                 \o (IF i = at THEN Bytes(" crc32=") \o Hex8(h)
                                     ELSE <<>>)]],
                <<>>, <<LF>>, TRUE, ErrEOF)] :
            hs \in [1..n -> PartNumbers], at \in 1..n, good \in BOOLEAN} :
        n \in 1..MaxParts}

\* Per-part CRC: a single part whose trailer carries pcrc32=text
PartCrcInputs ==
    UNION {
        {[kind |-> "pcrc", orig |-> <<o>>, text |-> t,
          stream |-> Stream(<<>>,
                            <<[PlainPart(Bytes("f"), <<Encode(o)>>, Len(o)) EXCEPT
                                 !.trailer = @ \o Bytes(" pcrc32=") \o t]>>,
                            <<>>, <<LF>>, TRUE, ErrEOF)] :
            t \in CrcTexts(o)} :
        o \in CrcBodies}

\* Unfinished tail: n valid parts, the last of which declares crc32=H, then a
\* part with a body line and no =yend line; H is the CRC-32 of the decoded
\* bytes of the n parts (listed) or of those and the body line after them
TailInputs ==
    UNION {
        {LET all == [i \in 1..(n + 1) |-> OrigOf(i)]
             h == CrcUpdate(Zero32, Flatten(IF listed THEN Take(all, n) ELSE all))
         IN  [kind |-> "tail", orig |-> Take(all, n), listed |-> listed,
              stream |-> Stream(<<>>,
                [i \in 1..(n + 1) |->
                    LET q == IF multi THEN NumberedPart(i, <<Encode(OrigOf(i))>>, i)
                             ELSE PlainPart(Bytes("f"), <<Encode(OrigOf(i))>>, i)
                    IN  IF i < n THEN q
                        ELSE IF i = n
                        THEN [q EXCEPT !.trailer = @ \o Bytes(" crc32=") \o Hex8(h)]
                        ELSE [q EXCEPT !.ended = FALSE]],
                <<>>, <<LF>>, TRUE, ErrEOF)] :
            listed \in BOOLEAN} :
        n \in 1..(MaxParts - 1), multi \in BOOLEAN}

\* Pending escape: two parts; the body line of the first decodes to one byte
\* and ends in an escape marker or not, the body line of the second is any
\* short line, and its size= is what the line decodes to under a cleared flag
PendingInputs ==
    {LET first == IF pending THEN Bytes("5=") ELSE Bytes("5")
         n == Len(decode(TrimRight(<<c>> \o b), FALSE).out)
         mk(i, ls, size) == IF multi THEN NumberedPart(i, ls, size)
                            ELSE PlainPart(Bytes("f"), ls, size)
     IN  [kind |-> "pending", orig |-> <<<<11>>>>, pending |-> pending,
          stream |-> Stream(<<>>, <<mk(1, <<first>>, 1), mk(2, <<<<c>> \o b>>, n)>>,
                            <<>>, <<LF>>, TRUE, ErrEOF)] :
        pending \in BOOLEAN, multi \in BOOLEAN, c \in EscapeBytes,
        b \in SeqsUpTo(EscapeBytes, 1)}

\* Part sizes: n parts, part i with a body of i bytes and a trailer whose
\* size= is right ("ok"), one too large ("wrong"), no number ("bad") or
\* missing ("none")
SizeKinds == {"ok", "wrong", "bad", "none"}

PartSizeInputs ==
    UNION {
        {[kind |-> "sizes", orig |-> [i \in 1..n |-> OrigOf(i)], ds |-> ds,
          stream |-> Stream(<<>>,
                [i \in 1..n |->
                    [hextra |-> <<>>, hpart |-> IF multi THEN i ELSE -1, htotal |-> -1,
                     yrange |-> UsualRange,
                     hline |-> 128,
                     hsize |-> i, name |-> Bytes("f"), ypart |-> multi,
                     lines |-> <<Encode(OrigOf(i))>>, ended |-> TRUE,
                     trailer |-> (CASE ds[i] = "ok" -> Bytes(" size=") \o Dec(i)
                                    [] ds[i] = "wrong" -> Bytes(" size=") \o Dec(i + 1)
                                    [] ds[i] = "bad" -> Bytes(" size=x")
                                    [] OTHER -> <<>>)
                                 \o (IF multi THEN Bytes(" part=") \o Dec(i) ELSE <<>>)]],
                <<>>, <<LF>>, TRUE, ErrEOF)] :
            ds \in [1..n -> SizeKinds], multi \in BOOLEAN} :
        n \in 1..MaxParts}

\* Framed streams: n valid parts with at most one line before the first and
\* at most one after the last, neither beginning with =ybegin; the line after
\* the last part may lack its line end.  alt is the stream without them.
FrameLines ==
    {<<>>, Bytes("x"), Bytes("x=ybegin size=0 name=f"), Bytes("=yend size=0"),
     Bytes("=ypart begin=1 end=1")}

FramedInputs ==
    UNION {
        {LET ps == [i \in 1..n |->
                       IF multi THEN NumberedPart(i, <<Encode(OrigOf(i))>>, i)
                       ELSE PlainPart(Bytes("f"), <<Encode(OrigOf(i))>>, i)]
         IN  [kind |-> "framed", orig |-> [i \in 1..n |-> OrigOf(i)],
              stream |-> Stream(pre, ps, post, <<LF>>, term, ErrEOF),
              alt |-> Stream(<<>>, ps, <<>>, <<LF>>, TRUE, ErrEOF)] :
            pre \in SeqsUpTo(FrameLines, 1), post \in SeqsUpTo(FrameLines, 1),
            term \in BOOLEAN} :
        n \in 1..MaxParts, multi \in BOOLEAN}

\* Header values: n parts whose =ybegin lines carry size=hv.size, line=hv.line
\* and total=hv.total; the trailer of the last part has the right size= or one
\* too large.  alt is the stream with the usual values in the =ybegin lines.
HeaderValues == [size : {0, 9}, line : {0, 1}, total : {0, 5}]

HeaderInputs ==
    UNION {
        {LET ps == [i \in 1..n |->
                       LET q == IF multi THEN NumberedPart(i, <<Encode(OrigOf(i))>>, i)
                                ELSE PlainPart(Bytes("f"), <<Encode(OrigOf(i))>>, i)
                       IN  IF i = n /\ ~sized
                           THEN [q EXCEPT !.htotal = n,
                                          !.trailer = Bytes(" size=") \o Dec(i + 1)]
                           ELSE [q EXCEPT !.htotal = n]]
         IN  [kind |-> "header", orig |-> [i \in 1..n |-> OrigOf(i)], hv |-> hv,
              sized |-> sized,
              stream |-> Stream(<<>>,
                                [i \in 1..n |->
                                    [ps[i] EXCEPT !.hsize = hv.size, !.hline = hv.line,
                                                  !.htotal = hv.total]],
                                <<>>, <<LF>>, TRUE, ErrEOF),
              alt |-> Stream(<<>>, ps, <<>>, <<LF>>, TRUE, ErrEOF)] :
            hv \in HeaderValues, sized \in BOOLEAN} :
        n \in 1..MaxParts, multi \in BOOLEAN}

Inputs ==
    RoundTripInputs \cup CrcInputs \cup TruncInputs \cup OrderInputs
    \cup GarbageInputs \cup NameInputs \cup SizeInputs \cup EscapeInputs
    \cup SessionInputs \cup PartCrcInputs \cup TailInputs
    \cup PendingInputs \cup PartSizeInputs \cup FramedInputs \cup HeaderInputs
    \cup WideInputs

(***************************************************************************)
(* The state machine                                                       *)
(***************************************************************************)

VARIABLES
    input,            \* the reader's bytes and the error that ends them
    pos,              \* decoder.buf: the bytes consumed
    multipart,        \* decoder.multipart
    total,            \* decoder.total
    parts,            \* decoder.parts
    part,             \* decoder.part
    crc32,            \* decoder.crc32
    crcHash,          \* decoder.crcHash
    awaitingSpecial,  \* decoder.awaitingSpecial
    pc,               \* the place in Decode and run
    err,              \* the error run returns to Decode
    ret,              \* what Decode returns: (*Part, error)
    gen               \* how the input was made (not read by the decoder)

vars == <<input, pos, multipart, total, parts, part, crc32, crcHash,
          awaitingSpecial, pc, err, ret, gen>>

\* the decoder as one value
D ==
    [pos |-> pos, multipart |-> multipart, total |-> total, parts |-> parts,
     part |-> part, crc32 |-> crc32, crcHash |-> crcHash,
     awaitingSpecial |-> awaitingSpecial, pc |-> pc, err |-> err, ret |-> ret]

Becomes(d) ==
    /\ pos' = d.pos
    /\ multipart' = d.multipart
    /\ total' = d.total
    /\ parts' = d.parts
    /\ part' = d.part
    /\ crc32' = d.crc32
    /\ crcHash' = d.crcHash
    /\ awaitingSpecial' = d.awaitingSpecial
    /\ pc' = d.pc
    /\ err' = d.err
    /\ ret' = d.ret
    /\ UNCHANGED <<input, gen>>

Init ==
    /\ gen \in Inputs
    /\ input = [data |-> Render(gen.stream), err |-> gen.stream.err]
    /\ pos = NewDecoder.pos
    /\ multipart = NewDecoder.multipart
    /\ total = NewDecoder.total
    /\ parts = NewDecoder.parts
    /\ part = NewDecoder.part
    /\ crc32 = NewDecoder.crc32
    /\ crcHash = NewDecoder.crcHash
    /\ awaitingSpecial = NewDecoder.awaitingSpecial
    /\ pc = NewDecoder.pc
    /\ err = NewDecoder.err
    /\ ret = NewDecoder.ret

\* run: d.crcHash = crc32.NewIEEE()
RunStart == pc = "run" /\ Becomes(Step(input, D))

\* run: d.part = new(Part)
RunNewPart == pc = "newPart" /\ Becomes(Step(input, D))

\* readHeader reads one line
ReadHeader == pc = "readHeader" /\ Becomes(readHeader(input, D))

\* readPartHeader reads one line
ReadPartHeader == pc = "readPartHeader" /\ Becomes(readPartHeader(input, D))

\* readBody resets the part's body, the escape flag and the part's hash
ReadBodyStart == pc = "readBody" /\ Becomes(readBodyStart(D))

\* readBody reads one line
ReadBodyLine == pc = "readBodyLine" /\ Becomes(readBodyLine(input, D))

\* run appends the part and validates it
AppendPart == pc = "append" /\ Becomes(appendPart(D))

\* Decode returns
DecodeReturn == pc = "return" /\ Becomes(decodeReturn(D))

Next ==
    \/ RunStart
    \/ RunNewPart
    \/ ReadHeader
    \/ ReadPartHeader
    \/ ReadBodyStart
    \/ ReadBodyLine
    \/ AppendPart
    \/ DecodeReturn

Spec == Init /\ [][Next]_vars

Done == pc = "done"

\* Decode is a sequential program: while it has not returned, it takes its
\* next step.  A step of Next that changes the state is possible exactly
\* while pc is not "done" (C19_Terminates checks it), so weak fairness of
\* Next, WF_vars(Next), is the formula below: a behaviour either is at "done"
\* again and again or takes steps of Next again and again.
LiveSpec == Init /\ [][Next]_vars /\ ([]<>Done \/ []<><<Next>>_vars)

(***************************************************************************)
(* Claims                                                                  *)
(***************************************************************************)

\* C1: round trip.  When Decode has returned on a stream made by encoding a
\* byte sequence, cutting the encoded bytes into lines and framing them as a
\* single part, it returned no error and a Part whose Body is the byte sequence.
C1_RoundTrip ==
    (Done /\ gen.kind = "roundtrip")
        => (ret.err = Nil /\ ret.part.Body = gen.orig[1])

\* a run of two critical bytes, cut inside both escapes, has been decoded
C1_Witness ==
    /\ Done
    /\ gen.kind = "roundtrip"
    /\ gen.orig[1] = <<214, 224>>
    /\ Len(gen.stream.parts[1].lines) = 4
    /\ gen.stream.parts[1].lines[1] = <<Ord("=")>>
    /\ ret.err = Nil
    /\ ret.part.Body = <<214, 224>>

\* C2: CRC enforcement.  When Decode has returned on a single-part stream
\* whose trailer carries crc32=H, H a hexadecimal number of 32 bits, it
\* returned the CRC error if H differs from the CRC-32 of the decoded bytes
\* and no error if H equals it.
C2_CrcEnforced ==
    (/\ Done
     /\ gen.kind = "crc"
     /\ ParseUintHex(gen.text).ok
     /\ Len(ParseUintHex(gen.text).val) <= 8)
        => IF ParseUintHex(gen.text).val = StripZeros(CrcUpdate(Zero32, gen.orig[1]))
           THEN ret.err = Nil
           ELSE ret.err = ErrCrc

\* C3: truncated stream.  When Decode has returned on a stream whose last part
\* has its begin-header, its part-header when the stream is multipart, and a
\* body line, but no =yend line, it returned an error.
C3_TruncatedFails ==
    (/\ Done
     /\ gen.kind = "trunc"
     /\ LET p == gen.stream.parts[Len(gen.stream.parts)]
        IN  /\ p.lines # <<>>
            /\ p.hpart >= 0 => p.ypart)
        => ret.err # Nil

\* C4: when Decode has returned without error, the length of the returned
\* Part's Body equals its Size, and Size is the size= value of the trailer as
\* strconv.ParseInt reads it (0 when the trailer has none or one that begins
\* with no number).
C4_BodyLengthIsSize ==
    (Done /\ ret.err = Nil)
        => /\ Int64(Len(ret.part.Body)) = ret.part.Size
           /\ gen.kind = "size" => ret.part.Size = gen.declared

\* a body of two bytes under a trailer size=2 and a header size=9 was returned
C4_Witness ==
    /\ Done
    /\ ret.err = Nil
    /\ gen.kind = "size"
    /\ gen.declared = Int64(2)
    /\ gen.stream.parts[1].hsize = 9
    /\ Len(ret.part.Body) = 2

\* the text after the first name= of the first line of the input, up to the
\* end of the line
C5_DeclaredName ==
    LET line == TrimRight(ReadLine(input, 0).line)
    IN  Drop(line, Index(line, Bytes("name=")) + 5)

\* C5 as stated: for a valid single-part stream the returned Name is the text
\* after the first name= of the =ybegin line, verbatim.
C5_NameVerbatim ==
    (Done /\ gen.kind = "name")
        => (ret.err = Nil /\ ret.part.Name = C5_DeclaredName)

\* C5 amended: for a valid single-part stream the returned Name is the text
\* after the first name= of the =ybegin line with its leading and trailing
\* white space removed; the spaces inside it are kept.
C5_NameTrimmed ==
    (Done /\ gen.kind = "name")
        => (ret.err = Nil /\ ret.part.Name = TrimSpace(C5_DeclaredName))

\* a name with spaces inside and an earlier name= on the line were returned
C5_Witness ==
    /\ Done
    /\ gen.kind = "name"
    /\ gen.stream.parts[1].hextra # <<>>
    /\ gen.stream.parts[1].name = Bytes("a  b.c d")
    /\ gen.stream.eol = <<CR, LF>>
    /\ ret.err = Nil
    /\ ret.part.Name = Bytes("z line=128 size=1 name=a  b.c d")

\* the Number the header of part i of a stream of the "order" family sets
C6_Number(i) == IF gen.hs[i] >= 0 THEN gen.hs[i] ELSE 0

\* C6: when Decode has returned on a stream one of whose parts has a trailer
\* part=P with P different from the Number of its header, it returned the
\* ordering error; P and the Number are the int values of the two part= texts,
\* also when the texts have more than nine digits.
C6_OrderError ==
    /\ (/\ Done
        /\ gen.kind = "order"
        /\ \E i \in 1..Len(gen.hs) : gen.ts[i] >= 0 /\ gen.ts[i] # C6_Number(i))
           => ret.err = ErrOrder
    /\ (Done /\ gen.kind = "wide" /\ gen.t.value # gen.h.value) => ret.err = ErrOrder

\* the second part of a stream (header part=2, trailer part=1) was refused
\* after the first part had been accepted
C6_Witness ==
    /\ Done
    /\ gen.kind = "order"
    /\ gen.hs = <<1, 2>>
    /\ gen.ts = <<1, 1>>
    /\ Len(parts) = 1
    /\ ret.err = ErrOrder

\* no line of the data begins with =ybegin
NoBeginLine(data) ==
    \A i \in 1..Len(data) :
        (i = 1 \/ data[i - 1] = LF) => ~HasPrefix(Drop(data, i - 1), Bytes("=ybegin"))

\* C7: when Decode has returned on an input none of whose lines begins with
\* =ybegin, it returned the error "no yenc parts found" and no Part.
C7_NoPartsFound ==
    (Done /\ NoBeginLine(input.data))
        => (ret.err = ErrNoParts /\ ret.part = NilPart)

\* a near miss of a header followed by a trailer line was refused
C7_Witness ==
    /\ Done
    /\ gen.kind = "garbage"
    /\ gen.stream.pre = <<Bytes(" =ybegin size=0 name=f"), Bytes("=yend size=0")>>
    /\ gen.stream.term
    /\ NoBeginLine(input.data)
    /\ ret.err = ErrNoParts

\* the body that readBody yields for the one-line layout of an "escape" stream
C8_OneLineBody ==
    readFirstBody([data |-> Render(gen.alt), err |-> gen.alt.err], NewDecoder).part.Body

\* C8 as stated: for all a, b and c the body lines a= and cb decode to the
\* same bytes as the one line a=cb.
C8_AnyBytes ==
    (pc = "append" /\ gen.kind = "escape")
        => part.Body = C8_OneLineBody

\* none of the lines a=, cb and a=cb begins with =yend once its trailing CR
\* and LF are removed
C8_NoTrailerLine ==
    /\ ~HasPrefix(TrimRight(gen.a \o <<Ord("=")>>), Bytes("=yend"))
    /\ ~HasPrefix(TrimRight(<<gen.c>> \o gen.b), Bytes("=yend"))
    /\ ~HasPrefix(TrimRight(gen.a \o <<Ord("=")>> \o <<gen.c>> \o gen.b), Bytes("=yend"))

\* C8 amended: the body lines a= and cb decode to the same bytes as the one
\* line a=cb provided none of the three lines begins with =yend.
C8_EscapeAcrossLines ==
    (pc = "append" /\ gen.kind = "escape" /\ C8_NoTrailerLine)
        => part.Body = C8_OneLineBody

\* an escaped '=' that starts the second line was decoded as data
C8_Witness ==
    /\ pc = "append"
    /\ gen.kind = "escape"
    /\ C8_NoTrailerLine
    /\ gen.a = <<43>>
    /\ gen.c = Ord("=")
    /\ gen.b = <<Ord("y")>>
    /\ part.Body = <<1, 211, 79>>

\* C9: when Decode has returned an error, the Part it returned is nil.
C9_NoPartWithError ==
    Done => (ret.err # Nil => ret.part = NilPart)

\* an error was returned after a part had joined the list
C9_Witness ==
    /\ Done
    /\ ret.err # Nil
    /\ Len(parts) >= 1
    /\ ret.part = NilPart

\* C10: when Decode has returned without error, the Part it returned is the
\* first of the part list, with the Number of the first header of the stream
\* (of any width) and with a Body of the decoded bytes of the first part only.
C10_FirstPart ==
    (Done /\ ret.err = Nil)
        => /\ ret.part = parts[1]
           /\ gen.kind \in {"order", "trunc"} => ret.part.Body = gen.orig[1]
           /\ gen.kind = "order" => ret.part.Number = Int64(C6_Number(1))
           /\ gen.kind = "wide" => ret.part.Number = gen.h.value

\* part 2 came first in the stream, part 1 second, and part 2 was returned
C10_Witness ==
    /\ Done
    /\ ret.err = Nil
    /\ gen.kind = "order"
    /\ gen.hs = <<2, 1>>
    /\ Len(parts) = 2
    /\ ret.part.Number = Int64(2)
    /\ ret.part.Body = OrigOf(1)

\* the condition under which Decode calls decoder.validate
C11_Validates == ~multipart \/ Int64(Len(parts)) = parts[Len(parts)].Number

\* C11: when Decode has returned on a stream of valid parts that declares a
\* crc32, it returned the CRC error and no Part if the stream is not multipart
\* or the part list is as long as the Number of its last part, and the
\* declared value differs from the CRC-32 of the decoded bytes; otherwise (the
\* value is right, or the validation is skipped) it returned no error.
C11_SessionCrc ==
    (Done /\ gen.kind = "session")
        => IF C11_Validates /\ gen.declared # CrcUpdate(Zero32, Flatten(gen.orig))
           THEN ret.err = ErrCrc /\ ret.part = NilPart
           ELSE ret.err = Nil /\ ret.part = parts[1]

\* a multipart stream of one part numbered 2 with a wrong crc32 was accepted
C11_Witness ==
    /\ Done
    /\ gen.kind = "session"
    /\ gen.hs = <<2>>
    /\ multipart
    /\ crc32 = gen.declared
    /\ crc32 # crcHash
    /\ ~C11_Validates
    /\ ret.err = Nil

\* C12: per-part CRC.  When Decode has returned on a single-part stream whose
\* trailer carries pcrc32=H, H a hexadecimal number of 32 bits that differs
\* from the CRC-32 of the part's decoded Body, it returned the CRC error of
\* the part.
C12_PartCrcEnforced ==
    (/\ Done
     /\ gen.kind = "pcrc"
     /\ ParseUintHex(gen.text).ok
     /\ Len(ParseUintHex(gen.text).val) <= 8
     /\ ParseUintHex(gen.text).val # StripZeros(CrcUpdate(Zero32, gen.orig[1])))
        => ret.err = ErrPartCrc

\* C13: when run has returned and Decode is about to validate the
\* whole-session CRC, the digest of the session is the CRC-32 of the Bodies of
\* the parts of the part list, concatenated in the order of the list.
C13_DigestOfListedParts ==
    (pc = "return" /\ err = ErrEOF /\ Len(parts) > 0 /\ C11_Validates)
        => crcHash = CrcUpdate(Zero32, Flatten([i \in 1..Len(parts) |-> parts[i].Body]))

\* C14: when Decode has returned on a multipart stream whose last part has a
\* complete =ybegin line with part= and no =ypart line after it, so that the
\* search for the =ypart line met the end of the input, it returned an error.
C14_PartHeaderEofFails ==
    (/\ Done
     /\ gen.kind = "trunc"
     /\ gen.stream.err = ErrEOF
     /\ LET p == gen.stream.parts[Len(gen.stream.parts)]
        IN  p.hpart >= 0 /\ ~p.ypart /\ (gen.stream.term \/ p.lines # <<>>))
        => ret.err # Nil

\* the first position of the run of '=' bytes that ends at position i
C15_RunStart(line, i) ==
    CHOOSE s \in 1..i :
        /\ \A k \in s..i : line[k] = Ord("=")
        /\ s = 1 \/ line[s - 1] # Ord("=")

\* position i holds an escape marker: a '=' at an even distance from the start
\* of its run, or at an odd one when the run starts the line and the flag f
\* was set
C15_IsMarker(line, f, i) ==
    /\ line[i] = Ord("=")
    /\ LET s == C15_RunStart(line, i)
       IN  IF s = 1 /\ f THEN (i - s) % 2 = 1 ELSE (i - s) % 2 = 0

\* the byte at position i follows an escape marker
C15_Escaped(line, f, i) == IF i = 1 THEN f ELSE C15_IsMarker(line, f, i - 1)

\* what the line decoder is to emit for a line and an initial flag f: nothing
\* for a marker, (b-42-64) mod 256 for an escaped byte, else (b-42) mod 256
C15_Emitted(line, f) ==
    LET keep == {i \in 1..Len(line) : ~C15_IsMarker(line, f, i)}
        at(k) == CHOOSE i \in keep : Cardinality({j \in keep : j <= i}) = k
    IN  [k \in 1..Cardinality(keep) |->
            IF C15_Escaped(line, f, at(k)) THEN (line[at(k)] - 42 - 64) % 256
            ELSE (line[at(k)] - 42) % 256]

\* C15: every step of readBody that decodes a line appends to the Body the
\* bytes the per-byte rule gives for the line and the flag the step started
\* with, as many as the line has bytes that are no escape markers, and leaves
\* the flag set exactly if the line ended in a marker (or was empty under a
\* set flag).
C15_LineDecoder ==
    [][(pc = "readBodyLine" /\ pc' = "readBodyLine")
        => LET line == TrimRight(ReadLine(input, pos).line)
               f == awaitingSpecial
               markers == {i \in 1..Len(line) : C15_IsMarker(line, f, i)}
           IN  /\ part'.Body = part.Body \o C15_Emitted(line, f)
               /\ Len(part'.Body) = Len(part.Body) + Len(line) - Cardinality(markers)
               /\ awaitingSpecial' = IF line = <<>> THEN f
                                     ELSE C15_IsMarker(line, f, Len(line))]_vars

\* the line == was decoded under a set flag: its first '=' gave the byte 211,
\* its second one set the flag again
C15_Witness ==
    /\ pc = "append"
    /\ gen.kind = "escape"
    /\ gen.a = <<>>
    /\ gen.c = Ord("=")
    /\ gen.b = <<Ord("=")>>
    /\ part.Body = <<211>>
    /\ awaitingSpecial

\* C16: readBody clears the escape flag before the first body line of every
\* part; any other step that clears it is a step of readBody that decodes a
\* line and adds the escaped byte to the Body; and after a first part whose
\* last body line may end in an escape marker, the first body line of the
\* second part is decoded as under a cleared flag and the stream is accepted.
C16_FlagResetPerPart ==
    [][/\ pc = "readBody" => ~awaitingSpecial'
       /\ (pc # "readBody" /\ awaitingSpecial /\ ~awaitingSpecial')
            => /\ pc = "readBodyLine" /\ pc' = "readBodyLine"
               /\ Len(part'.Body) > Len(part.Body)
       /\ (/\ gen.kind = "pending" /\ Len(parts) = 1
           /\ pc = "readBodyLine" /\ pc' = "readBodyLine")
            => part'.Body
                 = C15_Emitted(TrimRight(ReadLine(input, pos).line), FALSE)
       /\ (gen.kind = "pending" /\ pc' = "done")
            => ret'.err = Nil /\ Len(parts') = 2]_vars

\* the first part ended with a pending escape marker, and the line =y of the
\* second part was decoded to the one byte 15
C16_Witness ==
    /\ Done
    /\ gen.kind = "pending"
    /\ gen.pending
    /\ gen.stream.parts[2].lines = <<Bytes("=y")>>
    /\ Len(parts) = 2
    /\ parts[2].Body = <<15>>
    /\ ret.err = Nil

\* C17: when Decode has returned on a stream of parts with non-empty bodies,
\* it returned the size error and no Part if the trailer of any part, the
\* first or a later one, has a size= that differs from the length of the
\* part's body, has one that is no number, or has none; and no error if the
\* size= of every part is right.
C17_MalformedPartAborts ==
    (Done /\ gen.kind = "sizes")
        => IF \E i \in 1..Len(gen.ds) : gen.ds[i] # "ok"
           THEN ret.err = ErrSize /\ ret.part = NilPart
           ELSE ret.err = Nil /\ Len(parts) = Len(gen.ds)

\* the first part validated and joined the list, the second one has no size=
\* and Decode returned the size error
C17_Witness ==
    /\ Done
    /\ gen.kind = "sizes"
    /\ gen.ds = <<"ok", "none">>
    /\ Len(parts) = 2
    /\ PartValidate(parts[1]) = Nil
    /\ Len(parts[2].Body) = 2
    /\ parts[2].Size = Int64(0)
    /\ ret.err = ErrSize
    /\ ret.part = NilPart

\* what Decode returns for the parts of a "framed" stream alone
C18_BareResult ==
    Decode([data |-> Render(gen.alt), err |-> gen.alt.err], NewDecoder).ret

\* C18: when Decode has returned on a stream of valid parts with lines before
\* the first =ybegin line and after the last =yend line, none of them
\* beginning with =ybegin, run had ended with io.EOF in the search for a
\* further =ybegin line, and Decode returned no error and the Part it returns
\* for the parts alone.
C18_FramingDiscarded ==
    (/\ Done
     /\ gen.kind = "framed"
     /\ gen.stream.term \/ gen.stream.post # <<>>)
        => /\ err = ErrEOF
           /\ ret.err = Nil
           /\ ret = C18_BareResult
           /\ Len(parts) = Len(gen.orig)

\* a near miss of a header before two numbered parts and a trailer line
\* without line end after them were read to the end and discarded
C18_Witness ==
    /\ Done
    /\ gen.kind = "framed"
    /\ gen.stream.pre = <<Bytes("x=ybegin size=0 name=f")>>
    /\ gen.stream.post = <<Bytes("=yend size=0")>>
    /\ ~gen.stream.term
    /\ multipart
    /\ Len(parts) = 2
    /\ pos = Len(input.data)
    /\ ret.err = Nil
    /\ ret.part.Body = OrigOf(1)

\* the place of pc in one turn of the loop of run, counted from its end
C19_Rank ==
    CASE pc = "done" -> 0
      [] pc = "return" -> 1
      [] pc = "readHeader" -> 2
      [] pc = "newPart" -> 3
      [] pc = "append" -> 4
      [] pc = "readBodyLine" -> 5
      [] pc = "readBody" -> 6
      [] pc = "readPartHeader" -> 7
      [] OTHER -> 8

\* the bytes of the input not yet consumed, then the place in the loop
C19_Variant == 8 * (Len(input.data) - pos) + C19_Rank

\* C19: Decode eventually returns; until then its next step is always possible
\* and changes the state; every turn of the searches for =ybegin and =ypart
\* and of the body loop either consumes a whole line of the input or makes
\* run return; and every step of Decode lowers a variant made of the bytes
\* left in the input and the place in the loop of run, so that each turn of
\* the loop over the parts consumes input too.
C19_Terminates ==
    /\ <>Done
    /\ [](~Done => Step(input, D) # D)
    /\ [][/\ pc \in {"readHeader", "readPartHeader", "readBodyLine"}
             => \/ pc' = "return"
                \/ pos' > pos /\ input.data[pos'] = LF
          /\ C19_Variant' < C19_Variant]_vars

\* Decode returned after two turns of the loop of run had consumed the whole
\* input and a third one had met its end
C19_Witness ==
    /\ Done
    /\ gen.kind = "session"
    /\ Len(parts) = 2
    /\ multipart
    /\ Len(input.data) > 0
    /\ pos = Len(input.data)
    /\ C19_Variant = 0

\* what Decode returns for a "header" stream with the usual header values
C20_UsualResult ==
    Decode([data |-> Render(gen.alt), err |-> gen.alt.err], NewDecoder).ret

\* C20: when Decode has returned on a stream whose =ybegin lines carry any
\* size=, line= and total= values, it returned the error it returns for the
\* stream with other values in their place and, without error, a Part with
\* the same Body, Name, Number and Size; the size= of the =ybegin line is not
\* compared with the body.
C20_HeaderValuesIgnored ==
    (Done /\ gen.kind = "header")
        => /\ ret.err = C20_UsualResult.err
           /\ ret.err = Nil <=> gen.sized
           /\ ret.err # Nil => ret.part = NilPart
           /\ ret.err = Nil
                => /\ ret.part.Body = C20_UsualResult.part.Body
                   /\ ret.part.Name = C20_UsualResult.part.Name
                   /\ ret.part.Number = C20_UsualResult.part.Number
                   /\ ret.part.Size = C20_UsualResult.part.Size
                   /\ ret.part.Body = gen.orig[1]

\* a part of one byte under a =ybegin line with size=9, line=0 and total=5,
\* read into the part and the decoder, was returned
C20_Witness ==
    /\ Done
    /\ gen.kind = "header"
    /\ gen.hv = [size |-> 9, line |-> 0, total |-> 5]
    /\ ret.err = Nil
    /\ ret.part.hsize = Int64(9)
    /\ ret.part.cols = Int64(0)
    /\ total = Int64(5)
    /\ Len(ret.part.Body) = 1
    /\ C20_UsualResult.part.hsize = Int64(1)

====
